---- MODULE Spec2Model ----
(***************************************************************************)
(* Model of src/models/job.js: the Job class, whose static methods send    *)
(* SQL statements to db.query.  The state is the content of the tables the *)
(* statements read and write (jobs, applications; companies is only read), *)
(* the jobs.id sequence, and for every caller the position inside a method *)
(* that awaits more than one statement, together with what the method      *)
(* returned or threw.                                                      *)
(***************************************************************************)
EXTENDS Integers, Sequences, FiniteSets, Bags, TLC

VARIABLES jobs,      \* jobs table: id -> [title, salary, equity, company_handle]
          apps,      \* applications table: a bag of [job_id, username, state]
          nextId,    \* next value of the jobs.id sequence
          pc,        \* per caller: "idle" or the statement a method waits at
          loc,       \* per caller: the locals of the method it is inside
          ret,       \* per caller: outcome of the last finished call
          issued,    \* ids returned by create, in call order
          hist       \* the latest finished calls while they follow a scenario

vars == <<jobs, apps, nextId, pc, loc, ret, issued, hist>>

----------------------------------------------------------------------------
(* Bounds of the model *)

MaxId == 2          \* at most this many create calls (ids 1..MaxId)
MaxApps == 2        \* at most this many rows in applications

Procs == {1, 2}
JobIds == 1..MaxId
ProbeIds == 1..(MaxId + 1)      \* ids a caller may pass, one never generated
Users == {"u1", "u2"}
States == {"applied"}
Titles == {<<"D", "e", "v">>, <<"q", "a">>}
Salaries == {50}
Equities == {10}                \* equity in percent
Terms == {<<"d">>}              \* title search terms

Null == "NULL"

\* companies table: never written by Job; every job refers to one of its rows
Companies ==
  [c1 |-> [name |-> "C1", num_employees |-> 5, description |-> "d1", logo_url |-> "l1"]]

Handles == DOMAIN Companies

JobData == [title : Titles, salary : Salaries, equity : Equities, company_handle : Handles]

----------------------------------------------------------------------------
(* JavaScript values read from the filter object of findAll *)

Undefined == [t |-> "undefined", n |-> 0, s |-> <<>>]
NaN == [t |-> "NaN", n |-> 0, s |-> <<>>]
Num(x) == [t |-> "number", n |-> x, s |-> <<>>]
Str(x) == [t |-> "string", n |-> 0, s |-> x]      \* x: the characters
Txt(u) == [t |-> "string", n |-> 0, s |-> <<u>>]  \* a name, kept as one token

\* if (v): undefined, NaN, 0 and "" are falsy
Truthy(v) ==
  CASE v.t = "undefined" -> FALSE
    [] v.t = "NaN" -> FALSE
    [] v.t = "number" -> v.n # 0
    [] v.t = "string" -> v.s # <<>>

\* +v: unary plus (numbers only arrive as numbers here)
ToNumber(v) == IF v.t = "number" THEN v ELSE NaN

----------------------------------------------------------------------------
(* Rows and row sets *)

\* the rows of applications that a.job_id = id AND a.username = u selects
AppsOf(tbl, id, u) == {r \in BagToSet(tbl) : r.job_id = id /\ r.username = u}

MatchesJobOnly(r, id, u) == r.job_id = id

\* WHERE job_id = $1 AND username = $2 of unapply
MatchesApp(r, id, u) == r.job_id = id /\ r.username = u

\* DELETE FROM applications WHERE ... RETURNING job_id: the rows deleted
DeletedApps(tbl, id, u) ==
  LET gone == {r \in BagToSet(tbl) : MatchesApp(r, id, u)}
  IN [r \in gone |-> tbl[r]]

\* jobs LEFT JOIN companies AS c ON company_handle = c.handle
CompanyName(h) == IF h \in DOMAIN Companies THEN Companies[h].name ELSE Null

\* one row of jobs LEFT JOIN companies LEFT OUTER JOIN applications, with
\* every column the statement can name
JoinRow(tbl, id, st, un) ==
  [id |-> id, title |-> tbl[id].title, salary |-> tbl[id].salary,
   equity |-> tbl[id].equity, company_handle |-> tbl[id].company_handle,
   name |-> CompanyName(tbl[id].company_handle), state |-> st, username |-> un]

JoinBagInner(jtbl, atbl, u) ==
  LET matched == {r \in BagToSet(atbl) : r.username = u /\ r.job_id \in DOMAIN jtbl}
      rowsM == {JoinRow(jtbl, r.job_id, r.state, r.username) : r \in matched}
  IN [row \in rowsM |->
        CopiesIn([job_id |-> row.id, username |-> u, state |-> row.state], atbl)]

\* ... LEFT OUTER JOIN applications AS a ON a.job_id = id AND a.username = $1:
\* one row per matching application, or one null-extended row when none
JoinBag(jtbl, atbl, u) ==
  LET matched == {r \in BagToSet(atbl) : r.username = u /\ r.job_id \in DOMAIN jtbl}
      lonely == {id \in DOMAIN jtbl : AppsOf(atbl, id, u) = {}}
      rowsM == {JoinRow(jtbl, r.job_id, r.state, r.username) : r \in matched}
      rowsL == {JoinRow(jtbl, id, Null, Null) : id \in lonely}
  IN [row \in rowsM \cup rowsL |->
        IF row.username = Null THEN 1
        ELSE CopiesIn([job_id |-> row.id, username |-> u, state |-> row.state], atbl)]

JoinColumns == {"id", "title", "salary", "equity", "company_handle", "handle", "name",
                "num_employees", "description", "logo_url", "job_id", "username", "state"}

----------------------------------------------------------------------------
(* findAll: building the statement *)

\* the criteria a caller may set, and the two keys lines 39 and 44 read
FilterData ==
  [min_salary : {Undefined, Num(50)}, min_equity : {Undefined, Num(10)},
   max_equity : {Undefined, Num(10)}, search : {Undefined} \cup {Str(x) : x \in Terms},
   min_employees : {Undefined}, max_employees : {Undefined}]
  \cup
  [min_salary : {Num(50)}, min_equity : {Undefined}, max_equity : {Undefined},
   search : {Undefined}, min_employees : {Num(5)}, max_employees : {Undefined}]
  \cup
  [min_salary : {Undefined}, min_equity : {Undefined}, max_equity : {Num(10)},
   search : {Undefined}, min_employees : {Undefined}, max_employees : {Num(5)}]

Tok(k) == [kind |-> k, column |-> "", op |-> "", ph |-> 0]
Pred(c, o, n) == [kind |-> "pred", column |-> c, op |-> o, ph |-> n]

\* lines 38-41
WithSalary(data, q) ==
  IF Truthy(data.min_salary)
  THEN LET vs == Append(q.values, ToNumber(data.min_employees))
       IN [values |-> vs, exprs |-> Append(q.exprs, Pred("min_salary", ">=", Len(vs)))]
  ELSE q

\* lines 43-46
WithEquity(data, q) ==
  IF Truthy(data.max_equity)
  THEN LET vs == Append(q.values, ToNumber(data.max_employees))
       IN [values |-> vs, exprs |-> Append(q.exprs, Pred("min_equity", ">=", Len(vs)))]
  ELSE q

\* lines 48-51
WithSearch(data, q) ==
  IF Truthy(data.search)
  THEN LET vs == Append(q.values, Str(<<"%">> \o data.search.s \o <<"%">>))
       IN [values |-> vs, exprs |-> Append(q.exprs, Pred("title", "ILIKE", Len(vs)))]
  ELSE q

\* whereExpressions.join(" AND ")
RECURSIVE JoinAnd(_)
JoinAnd(es) ==
  IF es = <<>> THEN <<>>
  ELSE IF Len(es) = 1 THEN es
  ELSE <<Head(es), Tok("AND")>> \o JoinAnd(Tail(es))

\* the statement text (as tokens) and the parameter list findAll sends
FindAllQuery(data, username) ==
  LET q0 == [values |-> <<Txt(username)>>, exprs |-> <<>>]
      q == WithSearch(data, WithEquity(data, WithSalary(data, q0)))
      base == IF Len(q.exprs) > 0 THEN <<Tok("BASE"), Tok("WHERE")>> ELSE <<Tok("BASE")>>
  IN [text |-> base \o JoinAnd(q.exprs), values |-> q.values]

----------------------------------------------------------------------------
(* db.query: what the storage does with the statements *)

Lower(c) ==
  CASE c = "D" -> "d" [] c = "E" -> "e" [] c = "V" -> "v"
    [] c = "Q" -> "q" [] c = "A" -> "a" [] OTHER -> c

\* s LIKE p without regard to case: % is any run of characters, _ any one
RECURSIVE ILike(_, _)
ILike(s, p) ==
  IF p = <<>> THEN s = <<>>
  ELSE IF Head(p) = "%" THEN ILike(s, Tail(p)) \/ (s # <<>> /\ ILike(Tail(s), p))
  ELSE /\ s # <<>>
       /\ Head(p) = "_" \/ Lower(Head(s)) = Lower(Head(p))
       /\ ILike(Tail(s), Tail(p))

PredsOf(text) == {text[i] : i \in {k \in DOMAIN text : text[k].kind = "pred"}}

\* a predicate on a joined row, its placeholder bound from the parameters
Holds(row, e, values) ==
  LET v == values[e.ph]
  IN CASE e.op = "ILIKE" -> v.t = "string" /\ ILike(row[e.column], v.s)
       [] e.op = ">=" -> v.t = "number" /\ row[e.column] >= v.n

\* the statement is rejected when it names a column none of the joined
\* tables has, or binds NaN to a numeric comparison
Rejected(text, values) ==
  \E e \in PredsOf(text) :
     \/ e.column \notin JoinColumns
     \/ e.op = ">=" /\ values[e.ph].t # "number"

\* rows of the findAll statement: the joined rows every predicate holds of
FilterBag(text, values, jtbl, atbl, username) ==
  LET all == JoinBag(jtbl, atbl, username)
      keep == {row \in DOMAIN all : \A e \in PredsOf(text) : Holds(row, e, values)}
  IN [row \in keep |-> all[row]]

\* SELECT list of findAll and findSome
Project(row) ==
  [id |-> row.id, title |-> row.title, company_handle |-> row.company_handle,
   salary |-> row.salary, equity |-> row.equity, name |-> row.name, state |-> row.state]

\* SELECT list of findUserJobs
ProjectUser(row) ==
  [id |-> row.id, title |-> row.title, company_handle |-> row.company_handle,
   salary |-> row.salary, equity |-> row.equity, company_name |-> row.name,
   state |-> row.state, username |-> row.username]

\* the arrangements of a bag as a sequence
RECURSIVE SeqsOfBag(_)
SeqsOfBag(B) ==
  IF DOMAIN B = {} THEN {<<>>}
  ELSE UNION {{<<x>> \o s : s \in SeqsOfBag(B (-) SetToBag({x}))} : x \in DOMAIN B}

\* ORDER BY id: rows of equal id come in any order
RECURSIVE OrderedById(_, _)
OrderedById(B, ids) ==
  IF ids = {} THEN {<<>>}
  ELSE LET m == CHOOSE i \in ids : \A k \in ids : i <= k
           same == {row \in DOMAIN B : row.id = m}
           part == [row \in same |-> B[row]]
       IN {a \o b : a \in SeqsOfBag(part), b \in OrderedById(B, ids \ {m})}

Min(a, b) == IF a < b THEN a ELSE b

\* OFFSET off LIMIT amt
Window(s, off, amt) == SubSeq(s, off + 1, Min(off + amt, Len(s)))

\* the SELECT list applied to the rows of a statement
ProjectSeq(s) == [i \in DOMAIN s |-> Project(s[i])]

ProjectBag(B) ==
  LET img == {Project(r) : r \in DOMAIN B}
  IN [x \in img |-> BagCardinality([r \in {y \in DOMAIN B : Project(y) = x} |-> B[r]])]

ProjectUserBag(B) ==
  LET img == {ProjectUser(r) : r \in DOMAIN B}
  IN [x \in img |-> BagCardinality([r \in {y \in DOMAIN B : ProjectUser(y) = x} |-> B[r]])]

----------------------------------------------------------------------------
(* sqlForPartialUpdate (helpers/partialUpdate): the UPDATE statement *)

ColOrder == <<"title", "salary", "equity", "company_handle">>

\* a sparse field map: some of the columns of a job, each with a new value
UpdateData == {[c \in S |-> d[c]] : S \in SUBSET {"title", "salary"}, d \in JobData}

RECURSIVE SelectCols(_, _)
SelectCols(order, S) ==
  IF order = <<>> THEN <<>>
  ELSE IF Head(order) \in S THEN <<Head(order)>> \o SelectCols(Tail(order), S)
  ELSE SelectCols(Tail(order), S)

\* UPDATE table SET c1=$1, ... WHERE key=$n RETURNING *, the id bound last;
\* an empty field map is refused
sqlForPartialUpdate(table, items, key, id) ==
  IF DOMAIN items = {} THEN [err |-> "ValidationError", set |-> <<>>, values |-> <<>>]
  ELSE LET cols == SelectCols(ColOrder, DOMAIN items)
       IN [err |-> "", set |-> cols,
           values |-> [i \in 1..(Len(cols) + 1) |->
                         IF i <= Len(cols) THEN items[cols[i]] ELSE id]]

\* the row the UPDATE statement writes in place of old
Updated(old, q) ==
  [c \in DOMAIN old |->
     IF \E i \in DOMAIN q.set : q.set[i] = c
     THEN q.values[CHOOSE i \in DOMAIN q.set : q.set[i] = c]
     ELSE old[c]]

----------------------------------------------------------------------------
(* Outcomes of calls *)

NotFoundStatus == 404

NoQuery == [text |-> <<>>, values |-> <<>>]

NoLoc ==
  [id |-> 0, username |-> "", state |-> "", data |-> <<>>, rows |-> <<>>,
   query |-> NoQuery]

NoJobData == [title |-> <<>>, salary |-> 0, equity |-> 0, company_handle |-> ""]

\* the arguments of a call: the id, the user and the data object, for the
\* methods that take one
Args(id, username, data) == [id |-> id, username |-> username, data |-> data]

\* a finished call: the method, its arguments, the error it threw (or ""),
\* and what it returned: rows in order, rows in no order, a count
Outcome(op, args, err, rows, bag, total) ==
  [op |-> op, args |-> args, err |-> err,
   status |-> IF err = "NotFound" THEN NotFoundStatus ELSE 0,
   rows |-> rows, bag |-> bag, total |-> total]

Returned(op, args, rows, bag, total) == Outcome(op, args, "", rows, bag, total)
Thrown(op, args, err) == Outcome(op, args, err, <<>>, EmptyBag, 0)

NoRet == Outcome("", Args(0, "", NoJobData), "", <<>>, EmptyBag, 0)

JobRow(id, j) ==
  [id |-> id, title |-> j.title, salary |-> j.salary, equity |-> j.equity,
   company_handle |-> j.company_handle]

Fields(row) ==
  [title |-> row.title, salary |-> row.salary, equity |-> row.equity,
   company_handle |-> row.company_handle]

----------------------------------------------------------------------------
(* The methods of Job, one action per awaited statement *)

Init ==
  /\ jobs = <<>>
  /\ apps = EmptyBag
  /\ nextId = 1
  /\ pc = [p \in Procs |-> "idle"]
  /\ loc = [p \in Procs |-> NoLoc]
  /\ ret = [p \in Procs |-> NoRet]
  /\ issued = <<>>
  /\ hist = <<>>

\* the method returns or throws: its promise settles with r
Finish(p, r) ==
  /\ ret' = [ret EXCEPT ![p] = r]
  /\ pc' = [pc EXCEPT ![p] = "settled"]
  /\ loc' = [loc EXCEPT ![p] = NoLoc]

Await(p, label, l) ==
  /\ pc' = [pc EXCEPT ![p] = label]
  /\ loc' = [loc EXCEPT ![p] = l]
  /\ UNCHANGED ret

UserJobsBagAll(jtbl, atbl, username) == JoinBag(jtbl, atbl, username)

\* WHERE a.username = $1 of findUserJobs
UserJobsBag(jtbl, atbl, username) ==
  LET all == JoinBag(jtbl, atbl, username)
      keep == {row \in DOMAIN all : row.username = username}
  IN [row \in keep |-> all[row]]

findUserJobs(p, username) ==
  /\ pc[p] = "idle"
  /\ Finish(p, Returned("findUserJobs", Args(0, username, NoJobData), <<>>,
                        ProjectUserBag(UserJobsBag(jobs, apps, username)), 0))
  /\ UNCHANGED <<jobs, apps, nextId, issued>>

\* lines 27-60: the statement is built and handed to db.query
findAll(p, data, username) ==
  /\ pc[p] = "idle"
  /\ Await(p, "findAll_rows",
           [NoLoc EXCEPT !.username = username, !.data = data,
                         !.query = FindAllQuery(data, username)])
  /\ UNCHANGED <<jobs, apps, nextId, issued>>

\* lines 60-61: db.query settles with the rows, or with the storage's error
findAll_rows(p) ==
  LET q == loc[p].query
      args == Args(0, loc[p].username, loc[p].data)
  IN /\ pc[p] = "findAll_rows"
     /\ IF Rejected(q.text, q.values)
        THEN Finish(p, Thrown("findAll", args, "StorageError"))
        ELSE Finish(p, Returned("findAll", args, <<>>,
                       ProjectBag(FilterBag(q.text, q.values, jobs, apps, loc[p].username)), 0))
     /\ UNCHANGED <<jobs, apps, nextId, issued>>

findSome(p, data, username) ==
  /\ pc[p] = "idle"
  /\ \E s \in OrderedById(JoinBag(jobs, apps, username), DOMAIN jobs) :
        Await(p, "findSome_count",
              [NoLoc EXCEPT !.username = username, !.data = data, !.rows = ProjectSeq(Window(s, data.offset, data.amt))])
  /\ UNCHANGED <<jobs, apps, nextId, issued>>

findSome_count(p) ==
  /\ pc[p] = "findSome_count"
  /\ Finish(p, Returned("findSome", Args(0, loc[p].username, loc[p].data), loc[p].rows, EmptyBag, Cardinality(DOMAIN jobs)))
  /\ UNCHANGED <<jobs, apps, nextId, issued>>

\* SELECT ... FROM jobs JOIN companies AS c ON company_handle = c.handle WHERE id = $1
FindOneRows(jtbl, id) ==
  IF id \in DOMAIN jtbl /\ jtbl[id].company_handle \in DOMAIN Companies
  THEN <<[id |-> id, title |-> jtbl[id].title, salary |-> jtbl[id].salary,
          equity |-> jtbl[id].equity, company_handle |-> jtbl[id].company_handle,
          name |-> Companies[jtbl[id].company_handle].name]>>
  ELSE <<>>

findOne(p, id) ==
  LET rows == FindOneRows(jobs, id)
  IN /\ pc[p] = "idle"
     /\ IF rows = <<>>
        THEN /\ Finish(p, Thrown("findOne", Args(id, "", NoJobData), "NotFound"))
        ELSE /\ Await(p, "findOne_company", [NoLoc EXCEPT !.id = id, !.rows = rows])
     /\ UNCHANGED <<jobs, apps, nextId, issued>>

findOne_company(p) ==
  LET job == loc[p].rows[1]
      company == IF job.company_handle \in DOMAIN Companies
                 THEN Companies[job.company_handle] ELSE [name |-> Null]
      full == [id |-> job.id, title |-> job.title, salary |-> job.salary,
               equity |-> job.equity, company_handle |-> job.company_handle,
               name |-> job.name, company |-> company]
  IN /\ pc[p] = "findOne_company"
     /\ Finish(p, Returned("findOne", Args(loc[p].id, "", NoJobData), <<full>>, EmptyBag, 0))
     /\ UNCHANGED <<jobs, apps, nextId, issued>>

NewIdAfterLast ==
  IF DOMAIN jobs = {} THEN 1 ELSE 1 + CHOOSE i \in DOMAIN jobs : \A k \in DOMAIN jobs : k <= i

\* the id the jobs.id sequence gives to the inserted row
NewId == nextId

create(p, data) ==
  LET id == NewId
      row == JobRow(id, data)
  IN /\ pc[p] = "idle"
     /\ nextId <= MaxId
     /\ jobs' = [i \in DOMAIN jobs \cup {id} |-> IF i = id THEN Fields(row) ELSE jobs[i]]
     /\ nextId' = nextId + 1
     /\ Finish(p, Returned("create", Args(0, "", data), <<row>>, EmptyBag, 0))
     /\ issued' = Append(issued, id)
     /\ UNCHANGED apps

update_reset(p, id, data) ==
  LET q == sqlForPartialUpdate("jobs", data, "id", id)
      row == IF id \in DOMAIN jobs /\ q.err = ""
             THEN [Updated(jobs[id], q) EXCEPT
                     !.equity = IF "equity" \in DOMAIN data THEN data.equity ELSE 0]
             ELSE NoJobData
  IN /\ pc[p] = "idle"
     /\ IF q.err # ""
        THEN /\ Finish(p, Thrown("update", Args(id, "", data), q.err))
             /\ UNCHANGED jobs
        ELSE IF id \in DOMAIN jobs
        THEN /\ jobs' = [jobs EXCEPT ![id] = row]
             /\ Finish(p, Returned("update", Args(id, "", data), <<JobRow(id, row)>>, EmptyBag, 0))
        ELSE /\ Finish(p, Thrown("update", Args(id, "", data), "NotFound"))
             /\ UNCHANGED jobs
     /\ UNCHANGED <<apps, nextId, issued>>

update_late_validation(p, id, data) ==
  LET q == sqlForPartialUpdate("jobs", data, "id", id)
  IN /\ pc[p] = "idle"
     /\ IF id \notin DOMAIN jobs
        THEN /\ Finish(p, Thrown("update", Args(id, "", data), "NotFound"))
             /\ UNCHANGED jobs
        ELSE IF q.err # ""
        THEN /\ Finish(p, Thrown("update", Args(id, "", data), q.err))
             /\ UNCHANGED jobs
        ELSE /\ jobs' = [jobs EXCEPT ![id] = Updated(jobs[id], q)]
             /\ Finish(p, Returned("update", Args(id, "", data),
                              <<JobRow(id, Updated(jobs[id], q))>>, EmptyBag, 0))
     /\ UNCHANGED <<apps, nextId, issued>>

\* sqlForPartialUpdate runs before db.query is called: when it throws, the
\* method ends there and no statement reaches the storage
update(p, id, data) ==
  LET q == sqlForPartialUpdate("jobs", data, "id", id)
      key == q.values[Len(q.values)]
  IN /\ pc[p] = "idle"
     /\ IF q.err # ""
        THEN /\ Finish(p, Thrown("update", Args(id, "", data), q.err))
             /\ UNCHANGED jobs
        ELSE IF key \in DOMAIN jobs
        THEN /\ jobs' = [jobs EXCEPT ![key] = Updated(jobs[key], q)]
             /\ Finish(p, Returned("update", Args(id, "", data),
                              <<JobRow(key, Updated(jobs[key], q))>>, EmptyBag, 0))
        ELSE /\ Finish(p, Thrown("update", Args(id, "", data), "NotFound"))
             /\ UNCHANGED jobs
     /\ UNCHANGED <<apps, nextId, issued>>

remove_cascading(p, id) ==
  /\ pc[p] = "idle"
  /\ IF id \in DOMAIN jobs
     THEN /\ jobs' = [i \in DOMAIN jobs \ {id} |-> jobs[i]]
          /\ apps' = [r \in {x \in DOMAIN apps : x.job_id # id} |-> apps[r]]
          /\ Finish(p, Returned("remove", Args(id, "", NoJobData), <<>>, EmptyBag, 0))
     ELSE /\ Finish(p, Thrown("remove", Args(id, "", NoJobData), "NotFound"))
          /\ UNCHANGED <<jobs, apps>>
  /\ UNCHANGED <<nextId, issued>>

remove_unchecked(p, id) ==
  /\ pc[p] = "idle"
  /\ jobs' = [i \in DOMAIN jobs \ {id} |-> jobs[i]]
  /\ Finish(p, Returned("remove", Args(id, "", NoJobData), <<>>, EmptyBag, 0))
  /\ UNCHANGED <<apps, nextId, issued>>

remove(p, id) ==
  /\ pc[p] = "idle"
  /\ IF id \in DOMAIN jobs
     THEN /\ jobs' = [i \in DOMAIN jobs \ {id} |-> jobs[i]]
          /\ Finish(p, Returned("remove", Args(id, "", NoJobData), <<>>, EmptyBag, 0))
     ELSE /\ Finish(p, Thrown("remove", Args(id, "", NoJobData), "NotFound"))
          /\ UNCHANGED jobs
  /\ UNCHANGED <<apps, nextId, issued>>

\* rows that callers inside apply are still to insert
Pending == Cardinality({q \in Procs : pc[q] = "apply_insert"})

apply_unchecked(p, id, username, state) ==
  /\ pc[p] = "idle"
  /\ BagCardinality(apps) + Pending < MaxApps
  /\ Await(p, "apply_insert",
           [NoLoc EXCEPT !.id = id, !.username = username, !.state = state])
  /\ UNCHANGED <<jobs, apps, nextId, issued>>

apply(p, id, username, state) ==
  /\ pc[p] = "idle"
  /\ BagCardinality(apps) + Pending < MaxApps
  /\ IF id \in DOMAIN jobs
     THEN /\ Await(p, "apply_insert",
                   [NoLoc EXCEPT !.id = id, !.username = username, !.state = state])
     ELSE /\ Finish(p, Thrown("apply", Args(id, username, NoJobData), "NotFound"))
  /\ UNCHANGED <<jobs, apps, nextId, issued>>

apply_insert_checked(p) ==
  LET row == [job_id |-> loc[p].id, username |-> loc[p].username, state |-> loc[p].state]
  IN /\ pc[p] = "apply_insert"
     /\ IF row.job_id \in DOMAIN jobs
        THEN /\ apps' = apps (+) SetToBag({row})
             /\ Finish(p, Returned("apply", Args(row.job_id, row.username, NoJobData), <<>>, EmptyBag, 0))
        ELSE /\ Finish(p, Thrown("apply", Args(row.job_id, row.username, NoJobData), "NotFound"))
             /\ UNCHANGED apps
     /\ UNCHANGED <<jobs, nextId, issued>>

apply_insert(p) ==
  LET row == [job_id |-> loc[p].id, username |-> loc[p].username, state |-> loc[p].state]
  IN /\ pc[p] = "apply_insert"
     /\ apps' = apps (+) SetToBag({row})
     /\ Finish(p, Returned("apply", Args(row.job_id, row.username, NoJobData), <<>>, EmptyBag, 0))
     /\ UNCHANGED <<jobs, nextId, issued>>

unapply_wide(p, id, username) ==
  LET deleted == DeletedApps(apps, id, username)
      gone == {r \in DOMAIN apps : r.job_id = id}
      err == IF BagCardinality(deleted) = 0 THEN "NotFound" ELSE ""
  IN /\ pc[p] = "idle"
     /\ apps' = [r \in DOMAIN apps \ gone |-> apps[r]]
     /\ Finish(p, Outcome("unapply", Args(id, username, NoJobData), err, <<>>, EmptyBag, 0))
     /\ UNCHANGED <<jobs, nextId, issued>>

unapply_quiet(p, id, username) ==
  /\ pc[p] = "idle"
  /\ apps' = apps (-) DeletedApps(apps, id, username)
  /\ Finish(p, Returned("unapply", Args(id, username, NoJobData), <<>>, EmptyBag, 0))
  /\ UNCHANGED <<jobs, nextId, issued>>

unapply(p, id, username) ==
  LET deleted == DeletedApps(apps, id, username)
      err == IF BagCardinality(deleted) = 0 THEN "NotFound" ELSE ""
  IN /\ pc[p] = "idle"
     /\ apps' = apps (-) deleted
     /\ Finish(p, Outcome("unapply", Args(id, username, NoJobData), err, <<>>, EmptyBag, 0))
     /\ UNCHANGED <<jobs, nextId, issued>>

\* the caller takes the outcome of its await and is free to call again
resume(p) ==
  /\ pc[p] = "settled"
  /\ pc' = [pc EXCEPT ![p] = "idle"]
  /\ ret' = [ret EXCEPT ![p] = NoRet]
  /\ UNCHANGED <<jobs, apps, nextId, loc, issued>>

----------------------------------------------------------------------------
(* One caller at a time: every call finishes before the next one starts *)

Callers == {1}

Offsets == {0, 1}
Amounts == {1, 2}
PageData == [offset : Offsets, amt : Amounts]

Next ==
  \E p \in Callers :
     \/ (\E u \in Users : findUserJobs(p, u)) /\ UNCHANGED hist
     \/ (\E d \in FilterData, u \in Users : findAll(p, d, u)) /\ UNCHANGED hist
     \/ findAll_rows(p) /\ UNCHANGED hist
     \/ (\E d \in PageData, u \in Users : findSome(p, d, u)) /\ UNCHANGED hist
     \/ findSome_count(p) /\ UNCHANGED hist
     \/ (\E id \in ProbeIds : findOne(p, id)) /\ UNCHANGED hist
     \/ findOne_company(p) /\ UNCHANGED hist
     \/ (\E d \in JobData : create(p, d)) /\ UNCHANGED hist
     \/ (\E id \in ProbeIds, d \in UpdateData : update(p, id, d)) /\ UNCHANGED hist
     \/ (\E id \in ProbeIds : remove(p, id)) /\ UNCHANGED hist
     \/ (\E id \in ProbeIds, u \in Users, s \in States : apply(p, id, u, s)) /\ UNCHANGED hist
     \/ apply_insert(p) /\ UNCHANGED hist
     \/ (\E id \in ProbeIds, u \in Users : unapply(p, id, u)) /\ UNCHANGED hist
     \/ resume(p) /\ UNCHANGED hist

Spec == Init /\ [][Next]_vars

----------------------------------------------------------------------------
(* The same caller, with the calls it finishes written down for as long as *)
(* they follow one of two runs: apply, unapply, unapply on one (job, user) *)
(* pair that had no application; create, then findOne on the id returned.  *)

\* number of rows of tbl for the pair (id, u)
PairRows(tbl, id, u) ==
  BagCardinality([r \in {x \in DOMAIN tbl : x.job_id = id /\ x.username = u} |-> tbl[r]])

Entry(op, id, username, err, n, job) ==
  [op |-> op, id |-> id, username |-> username, err |-> err, n |-> n, job |-> job]

\* the finished call e continues the calls written down in h
Continues(h, e) ==
  /\ h # <<>>
  /\ \/ /\ h[1].op = "apply" /\ e.op = "unapply" /\ Len(h) < 3
        /\ e.id = h[1].id /\ e.username = h[1].username
     \/ h[1].op = "create" /\ e.op = "findOne" /\ Len(h) = 1 /\ e.id = h[1].id

Observe(p) ==
  LET r == ret'[p]
      id == IF r.op = "create" THEN r.rows[1].id ELSE r.args.id
      job == IF r.op = "create" THEN r.args.data
             ELSE IF r.op = "findOne" /\ r.err = "" THEN Fields(r.rows[1])
             ELSE NoJobData
      e == Entry(r.op, id, r.args.username, r.err, PairRows(apps', id, r.args.username), job)
      starts == \/ r.op = "create"
                \/ /\ r.op = "apply"
                   /\ id \in DOMAIN jobs
                   /\ PairRows(apps, id, r.args.username) = 0
  IN hist' = IF pc'[p] = "settled" /\ pc[p] # "settled"
             THEN IF starts THEN <<e>>
                  ELSE IF Continues(hist, e) THEN Append(hist, e) ELSE <<>>
             ELSE hist

NextRun ==
  \E p \in Callers :
     \/ (\E id \in ProbeIds : findOne(p, id)) /\ Observe(p)
     \/ findOne_company(p) /\ Observe(p)
     \/ (\E d \in JobData : create(p, d)) /\ Observe(p)
     \/ (\E id \in ProbeIds : remove(p, id)) /\ Observe(p)
     \/ (\E id \in ProbeIds, u \in Users, s \in States : apply(p, id, u, s)) /\ Observe(p)
     \/ apply_insert(p) /\ Observe(p)
     \/ (\E id \in ProbeIds, u \in Users : unapply(p, id, u)) /\ Observe(p)
     \/ resume(p) /\ Observe(p)

SpecRun == Init /\ [][NextRun]_vars

----------------------------------------------------------------------------
(* Two callers at once: the statements of their calls interleave, since no *)
(* method opens a transaction.  Caller Watched makes the calls that await  *)
(* two statements (apply, findSome); caller Writer inserts and deletes     *)
(* jobs, also between the two statements of Watched.  What happens during  *)
(* one call of Watched is written down: the jobs there were at its first   *)
(* statement, the inserts and deletes of jobs that ran before its second   *)
(* statement, and the end of the call.                                     *)

Watched == 1
Writer == 2

\* the job Writer inserts: what a job holds plays no part in the interleaving
WriterData == {d \in JobData : d.title = <<"q", "a">>}

Event(op, id, n) == [op |-> op, id |-> id, n |-> n]

Midway(l) == l \in {"apply_insert", "findSome_count"}

ObserveCall ==
  LET w == Watched
      n == Cardinality(DOMAIN jobs)
      born == DOMAIN jobs' \ DOMAIN jobs
      gone == DOMAIN jobs \ DOMAIN jobs'
  IN hist' =
       IF pc[w] = "idle" /\ pc'[w] = "apply_insert" THEN <<Event("apply", loc'[w].id, n)>>
       ELSE IF pc[w] = "idle" /\ pc'[w] = "findSome_count" THEN <<Event("findSome", 0, n)>>
       ELSE IF Midway(pc[w]) /\ pc'[w] = "settled" THEN Append(hist, Event("done", 0, n))
       ELSE IF Midway(pc[w]) /\ born # {}
            THEN Append(hist, Event("create", CHOOSE i \in born : TRUE, n + 1))
       ELSE IF Midway(pc[w]) /\ gone # {}
            THEN Append(hist, Event("remove", CHOOSE i \in gone : TRUE, n - 1))
       ELSE IF pc[w] # pc'[w] THEN <<>>
       ELSE hist

NextBoth ==
  \/ (\E d \in PageData, u \in Users : findSome(Watched, d, u)) /\ ObserveCall
  \/ findSome_count(Watched) /\ ObserveCall
  \/ (\E id \in ProbeIds, u \in Users, s \in States : apply(Watched, id, u, s)) /\ ObserveCall
  \/ apply_insert(Watched) /\ ObserveCall
  \/ (\E d \in WriterData : create(Writer, d)) /\ ObserveCall
  \/ (\E id \in ProbeIds : remove(Writer, id)) /\ ObserveCall
  \/ (\E p \in Procs : resume(p)) /\ ObserveCall

SpecBoth == Init /\ [][NextBoth]_vars

----------------------------------------------------------------------------
(* Claims *)

Settled(p, op) == pc[p] = "settled" /\ ret[p].op = op

IdsOf(B) == {row.id : row \in DOMAIN B}

NoCriteria ==
  [min_salary |-> Undefined, min_equity |-> Undefined, max_equity |-> Undefined,
   search |-> Undefined, min_employees |-> Undefined, max_employees |-> Undefined]

\* a step in which caller p goes from idle to the end of a call of op
Ends(p, op) == pc[p] = "idle" /\ pc'[p] = "settled" /\ ret'[p].op = op

\* C1: for an id that is not in the jobs table, findOne(id), update(id, data)
\* with a non-empty data and remove(id) each end with the 404 NotFound error
\* and return nothing: none of them goes on to a further statement or
\* finishes in any other way.
C1_MissingJobIsNotFound ==
  [][\A p \in Callers :
       /\ (pc[p] = "idle" /\ pc'[p] = "findOne_company") => loc'[p].id \in DOMAIN jobs
       /\ \A op \in {"findOne", "update", "remove"} :
             (/\ Ends(p, op)
              /\ ret'[p].args.id \notin DOMAIN jobs
              /\ op = "update" => DOMAIN ret'[p].args.data # {}) =>
                /\ ret'[p].err = "NotFound" /\ ret'[p].status = 404
                /\ ret'[p].rows = <<>>]_vars

C1_Witness ==
  \E p \in Callers :
     /\ Settled(p, "update") /\ ret[p].status = 404
     /\ ret[p].args.id \notin DOMAIN jobs /\ DOMAIN jobs # {}

\* C2: apply(id, username, state) for an id that is not in the jobs table
\* ends with NotFound without reaching the INSERT, and the applications
\* table is left as it was.
C2_ApplyMissingJob ==
  [][\A p \in Callers :
       /\ (pc[p] = "idle" /\ pc'[p] = "apply_insert") => loc'[p].id \in DOMAIN jobs
       /\ (Ends(p, "apply") /\ ret'[p].args.id \notin DOMAIN jobs) =>
             /\ ret'[p].err = "NotFound" /\ ret'[p].status = 404
             /\ apps' = apps]_vars

C2_Witness ==
  \E p \in Callers :
     /\ Settled(p, "apply") /\ ret[p].err = "NotFound"
     /\ ret[p].args.id \notin DOMAIN jobs /\ apps # EmptyBag

\* C3: unapply(id, username) ends with NotFound exactly when applications
\* holds no row for (id, username) as the DELETE runs; when it holds one or
\* more the call succeeds and no row for (id, username) is left.
C3_UnapplyNotFoundIff ==
  [][\A p \in Callers :
       Ends(p, "unapply") =>
          LET id == ret'[p].args.id
              u == ret'[p].args.username
          IN /\ ret'[p].err = "NotFound" <=> PairRows(apps, id, u) = 0
             /\ PairRows(apps, id, u) > 0 => ret'[p].err = "" /\ PairRows(apps', id, u) = 0]_vars

C3_Witness ==
  \E p \in Callers :
     /\ Settled(p, "unapply") /\ ret[p].err = ""
     /\ PairRows(apps, ret[p].args.id, ret[p].args.username) = 0
     /\ apps # EmptyBag

\* C4: for a job that exists and a user with no application for it, the run
\* apply, unapply, unapply on that pair goes: success, the pair has an
\* application; success, it has none; NotFound, it still has none.
C4_Lifecycle ==
  (hist # <<>> /\ hist[1].op = "apply") =>
     /\ hist[1].err = "" /\ hist[1].n = 1
     /\ Len(hist) >= 2 => hist[2].err = "" /\ hist[2].n = 0
     /\ Len(hist) >= 3 => hist[3].err = "NotFound" /\ hist[3].n = 0

C4_Witness == Len(hist) = 3 /\ hist[1].op = "apply" /\ hist[3].op = "unapply"

\* C5: the applications table holds at most one row per (job_id, username).
C5_OnePerPair == \A id \in ProbeIds, u \in Users : PairRows(apps, id, u) <= 1

OnlyMinSalary(d) ==
  /\ d.min_salary # Undefined /\ d.min_equity = Undefined
  /\ d.max_equity = Undefined /\ d.search = Undefined

\* C6: findAll with only a minimum salary t returns exactly the jobs whose
\* salary is at least t, whatever the stored jobs and t.
C6_MinSalarySearch ==
  \A p \in Callers :
     (Settled(p, "findAll") /\ OnlyMinSalary(ret[p].args.data)) =>
        /\ ret[p].err = ""
        /\ IdsOf(ret[p].bag) =
             {id \in DOMAIN jobs : jobs[id].salary >= ret[p].args.data.min_salary.n}

\* C7: findUserJobs(username) returns every job of the jobs table, with the
\* user's application state, null for the jobs the user has not applied to.
C7_AllJobsListed ==
  \A p \in Callers :
     Settled(p, "findUserJobs") =>
        /\ IdsOf(ret[p].bag) = DOMAIN jobs
        /\ \A row \in DOMAIN ret[p].bag :
              row.state = Null <=> PairRows(apps, row.id, ret[p].args.username) = 0

\* C7 as amended: findUserJobs(username) returns the jobs the user has an
\* application for and no others, one row per application row, each with
\* the job's columns, the application's state and the username; the jobs the
\* user has not applied to are filtered out by WHERE a.username = $1.
C7_AppliedJobsListed ==
  \A p \in Callers :
     Settled(p, "findUserJobs") =>
        LET u == ret[p].args.username
        IN /\ ret[p].err = ""
           /\ IdsOf(ret[p].bag) = {id \in DOMAIN jobs : PairRows(apps, id, u) > 0}
           /\ \A row \in DOMAIN ret[p].bag :
                 /\ row.username = u
                 /\ Fields(row) = jobs[row.id]
                 /\ ret[p].bag[row] =
                      CopiesIn([job_id |-> row.id, username |-> u, state |-> row.state], apps)

C7_Witness ==
  \E p \in Callers :
     /\ Settled(p, "findUserJobs")
     /\ IdsOf(ret[p].bag) # {}
     /\ IdsOf(ret[p].bag) # DOMAIN jobs

\* C8: findAll with no criteria returns the same set of jobs as findUserJobs
\* for the same username, in every storage state.
C8_SearchAllEqualsList ==
  \A p \in Callers :
     (Settled(p, "findAll") /\ ret[p].args.data = NoCriteria) =>
        /\ ret[p].err = ""
        /\ IdsOf(ret[p].bag) = IdsOf(UserJobsBag(jobs, apps, ret[p].args.username))

\* C8 as amended: findAll with no criteria returns every job of the jobs
\* table, and findUserJobs for the same username returns of these exactly
\* the jobs the user has an application for; the two sets are equal only
\* when the user has an application for every job.
C8_ListIsAppliedPartOfSearch ==
  \A p \in Callers :
     (Settled(p, "findAll") /\ ret[p].args.data = NoCriteria) =>
        LET u == ret[p].args.username
            all == IdsOf(ret[p].bag)
            mine == IdsOf(UserJobsBag(jobs, apps, u))
        IN /\ ret[p].err = ""
           /\ all = DOMAIN jobs
           /\ mine = {id \in all : PairRows(apps, id, u) > 0}
           /\ all = mine <=> \A id \in DOMAIN jobs : PairRows(apps, id, u) > 0

C8_Witness ==
  \E p \in Callers :
     /\ Settled(p, "findAll") /\ ret[p].args.data = NoCriteria
     /\ \E id \in IdsOf(ret[p].bag) : PairRows(apps, id, ret[p].args.username) > 0
     /\ \E id \in IdsOf(ret[p].bag) : PairRows(apps, id, ret[p].args.username) = 0

\* the ids of a set in ascending order
RECURSIVE Ascending(_)
Ascending(S) ==
  IF S = {} THEN <<>>
  ELSE LET m == CHOOSE i \in S : \A k \in S : i <= k IN <<m>> \o Ascending(S \ {m})

\* C9: with no other caller writing, findSome returns rows in ascending id
\* order, the window of at most amt rows that starts at position offset of
\* the jobs listed by id, and as total the number of rows of the jobs table.
C9_PageWindow ==
  \A p \in Callers :
     Settled(p, "findSome") =>
        LET d == ret[p].args.data
            ids == [i \in DOMAIN ret[p].rows |-> ret[p].rows[i].id]
        IN /\ ret[p].err = ""
           /\ Len(ids) <= d.amt
           /\ ids = Window(Ascending(DOMAIN jobs), d.offset, d.amt)
           /\ ret[p].total = Cardinality(DOMAIN jobs)

\* C10: create(data) and then findOne on the id create returned, with no
\* call in between, gives a job whose title, salary, equity and
\* company_handle are those of data; no two create calls return the same id.
C10_RoundTrip ==
  /\ (Len(hist) = 2 /\ hist[1].op = "create") =>
        hist[2].op = "findOne" /\ hist[2].err = "" /\ hist[2].job = hist[1].job
  /\ \A i, k \in DOMAIN issued : i # k => issued[i] # issued[k]

C10_Witness ==
  /\ Len(hist) = 2 /\ hist[1].op = "create" /\ hist[2].op = "findOne"
  /\ Len(issued) >= 2

\* C11: update(id, data) on a job that exists, with a non-empty data, succeeds
\* and changes on the job id exactly the columns data names: every other
\* column of that job, its id, every other job and the applications keep
\* their values, and the job returned is the row as it is after the update
\* (for data = {title: X}: the new title, everything else as before).
C11_UpdateChangesNamedFields ==
  [][\A p \in Callers :
       (/\ Ends(p, "update")
        /\ ret'[p].args.id \in DOMAIN jobs
        /\ DOMAIN ret'[p].args.data # {}) =>
          LET id == ret'[p].args.id
              d == ret'[p].args.data
          IN /\ ret'[p].err = ""
             /\ DOMAIN jobs' = DOMAIN jobs
             /\ \A c \in DOMAIN jobs[id] :
                   jobs'[id][c] = IF c \in DOMAIN d THEN d[c] ELSE jobs[id][c]
             /\ \A k \in DOMAIN jobs \ {id} : jobs'[k] = jobs[k]
             /\ ret'[p].rows = <<JobRow(id, jobs'[id])>>
             /\ apps' = apps /\ nextId' = nextId]_vars

C11_Witness ==
  \E p \in Callers :
     /\ Settled(p, "update") /\ ret[p].err = ""
     /\ DOMAIN ret[p].args.data = {"title"}
     /\ \E k \in DOMAIN jobs :
           k # ret[p].args.id /\ jobs[k].title # jobs[ret[p].args.id].title

\* C12: update(id, data) with an empty data ends with ValidationError, for an
\* id that exists and for one that does not (the UPDATE statement, which
\* would find no row, is never sent), and jobs, applications and the id
\* sequence are left as they were.
C12_EmptyUpdateIsRefused ==
  [][\A p \in Callers :
       (Ends(p, "update") /\ DOMAIN ret'[p].args.data = {}) =>
          /\ ret'[p].err = "ValidationError"
          /\ ret'[p].rows = <<>>
          /\ jobs' = jobs /\ apps' = apps /\ nextId' = nextId]_vars

C12_Witness ==
  \E p \in Callers :
     /\ Settled(p, "update") /\ ret[p].err = "ValidationError"
     /\ ret[p].args.id \notin DOMAIN jobs /\ DOMAIN jobs # {}


\* a caller whose findAll has built its statement and waits for db.query
Building(p) == pc[p] = "findAll_rows"

\* the optional criteria a filter object supplies, in the order they are
\* evaluated: minimum salary, minimum equity, title search
PresentCriteria(d) ==
  (IF d.min_salary # Undefined THEN <<"salary">> ELSE <<>>)
  \o (IF d.min_equity # Undefined THEN <<"equity">> ELSE <<>>)
  \o (IF d.search # Undefined THEN <<"search">> ELSE <<>>)

\* the predicates of a statement, in the order they stand in its text
RECURSIVE PredList(_)
PredList(text) ==
  IF text = <<>> THEN <<>>
  ELSE (IF Head(text).kind = "pred" THEN <<Head(text)>> ELSE <<>>) \o PredList(Tail(text))

\* the criterion a predicate is the predicate of
CriterionOf(e) ==
  CASE e.column = "min_salary" -> "salary"
    [] e.column = "min_equity" -> "equity"
    [] e.column = "title" -> "search"

\* C13: in the statement findAll builds, the username is parameter 1, and
\* the present criteria contribute one predicate and one parameter each, in
\* the order salary, equity, search, the i-th predicate with placeholder
\* i + 1; the parameter list has 1 + (number of present criteria) entries.
C13_OnePredicatePerCriterion ==
  \A p \in Callers :
     Building(p) =>
        LET q == loc[p].query
            crit == PresentCriteria(loc[p].data)
            preds == PredList(q.text)
        IN /\ q.values[1] = Txt(loc[p].username)
           /\ Len(q.values) = 1 + Len(crit)
           /\ Len(preds) = Len(crit)
           /\ \A i \in DOMAIN preds :
                 i <= Len(crit) => preds[i].ph = i + 1 /\ CriterionOf(preds[i]) = crit[i]

\* C14: in the statement findAll builds, the minimum-salary predicate binds
\* the minimum salary supplied, and the minimum-equity predicate is there
\* exactly when a minimum equity is supplied and binds that value.
C14_CriteriaReadOwnField ==
  \A p \in Callers :
     Building(p) =>
        LET q == loc[p].query
            d == loc[p].data
        IN /\ \A e \in PredsOf(q.text) :
                 e.column = "min_salary" => q.values[e.ph] = d.min_salary
           /\ (\E e \in PredsOf(q.text) : e.column = "min_equity") <=> d.min_equity # Undefined
           /\ \A e \in PredsOf(q.text) :
                 e.column = "min_equity" => q.values[e.ph] = d.min_equity

\* C15: the statement findAll builds has a WHERE clause exactly when a
\* criterion is present; with none it is the base query with the parameter
\* list [username]; with k >= 1 it is the base query, WHERE, and k
\* predicates with AND between each two and nothing else.
C15_WhereIffCriteria ==
  \A p \in Callers :
     Building(p) =>
        LET q == loc[p].query
            k == Len(PresentCriteria(loc[p].data))
        IN /\ (\E i \in DOMAIN q.text : q.text[i].kind = "WHERE") <=> k >= 1
           /\ k = 0 => q.text = <<Tok("BASE")>> /\ q.values = <<Txt(loc[p].username)>>
           /\ k >= 1 =>
                 /\ Len(q.text) = 2 * k + 1
                 /\ q.text[1] = Tok("BASE") /\ q.text[2] = Tok("WHERE")
                 /\ \A i \in 3..Len(q.text) :
                       IF i % 2 = 1 THEN q.text[i].kind = "pred" ELSE q.text[i] = Tok("AND")

\* C16: remove(id) on a job that exists succeeds and deletes that row of
\* jobs only: every other job and every row of applications, those with
\* job_id = id included, are after the call what they were before it.
C16_RemoveDoesNotCascade ==
  [][\A p \in Callers :
       (Ends(p, "remove") /\ ret'[p].args.id \in DOMAIN jobs) =>
          LET id == ret'[p].args.id
          IN /\ ret'[p].err = ""
             /\ DOMAIN jobs' = DOMAIN jobs \ {id}
             /\ \A k \in DOMAIN jobs' : jobs'[k] = jobs[k]
             /\ apps' = apps /\ nextId' = nextId]_vars

C16_Witness ==
  \E p \in Callers :
     /\ Settled(p, "remove") /\ ret[p].err = ""
     /\ \E u \in Users : PairRows(apps, ret[p].args.id, u) > 0
     /\ DOMAIN jobs # {}

\* C18: a call of findOne, update, remove, apply or unapply that ends with
\* NotFound leaves the jobs table, the applications table and the id
\* sequence as they were.
C18_NotFoundChangesNothing ==
  [][\A p \in Callers :
       (/\ pc[p] # "settled" /\ pc'[p] = "settled"
        /\ ret'[p].op \in {"findOne", "update", "remove", "apply", "unapply"}
        /\ ret'[p].err = "NotFound") =>
          jobs' = jobs /\ apps' = apps /\ nextId' = nextId]_vars

C18_Witness ==
  \E p \in Callers :
     /\ Settled(p, "unapply") /\ ret[p].err = "NotFound"
     /\ \E u \in Users : PairRows(apps, ret[p].args.id, u) > 0

\* C19: in what findAll and findSome return for a username no job id comes
\* twice, in every reachable state, those with several application rows
\* for one (job, user) pair included.
C19_DistinctJobs ==
  \A p \in Callers :
     /\ (Settled(p, "findAll") /\ ret[p].err = "") =>
           /\ \A row \in DOMAIN ret[p].bag : ret[p].bag[row] = 1
           /\ \A r1, r2 \in DOMAIN ret[p].bag : r1.id = r2.id => r1 = r2
     /\ Settled(p, "findSome") =>
           \A i, k \in DOMAIN ret[p].rows : i # k => ret[p].rows[i].id # ret[p].rows[k].id

\* a call of Watched that began as op and has ended, with the job writes
\* that ran between its two statements written down in hist
Ended(op) ==
  /\ Len(hist) >= 2 /\ hist[1].op = op /\ hist[Len(hist)].op = "done"
  /\ Settled(Watched, op)

\* C17: with two callers, when remove(j) runs between the existence check
\* and the INSERT of apply(j, u, s), apply all the same returns success and
\* applications holds a row for (j, u) while jobs holds no job j.
C17_InsertAfterDelete ==
  (/\ Ended("apply")
   /\ \E i \in DOMAIN hist : hist[i].op = "remove" /\ hist[i].id = hist[1].id) =>
      /\ ret[Watched].err = ""
      /\ ret[Watched].args.id = hist[1].id
      /\ PairRows(apps, hist[1].id, ret[Watched].args.username) >= 1
      /\ hist[1].id \notin DOMAIN jobs

C17_Witness ==
  /\ Ended("apply") /\ Len(hist) = 3
  /\ hist[2].op = "remove" /\ hist[2].id = hist[1].id
  /\ ret[Watched].err = ""
  /\ PairRows(apps, hist[1].id, ret[Watched].args.username) = 1
  /\ hist[1].id \notin DOMAIN jobs

\* C20: with two callers, the total findSome returns is the number of rows
\* jobs had when the window was read, and the window holds no more jobs
\* than the total counts, also when create or remove ran between the two
\* statements.
C20_WindowAndTotalAgree ==
  Ended("findSome") =>
     /\ ret[Watched].total = hist[1].n
     /\ Cardinality({ret[Watched].rows[i].id : i \in DOMAIN ret[Watched].rows})
           <= ret[Watched].total

====
